---- MODULE Spec2Model ----
(***************************************************************************)
(* Model of air_quality_exporter.py: the AQI computation of get_aqi_data   *)
(* (breakpoint table, interpolation, combination, risk classification),    *)
(* the sample path gauge -> Prometheus -> get_mean, one collection cycle   *)
(* of collect_data, and the SIGALRM schedule of handler / __main__.        *)
(*                                                                         *)
(* Numbers are exact rationals [num, den] with den > 0; NaN is the value   *)
(* with den = 0.                                                           *)
(***************************************************************************)
EXTENDS Integers, Sequences, FiniteSets, TLC

VARIABLES
    emeans,     \* engine check: one row of df before masking (SID -> mean)
    eres,       \* engine check: the row get_aqi_data returns for it
    caqi,       \* classification check: an AQI value
    crisk,      \* classification check: the risk label computed for caqi
    ekind,      \* which of the two checks this behaviour runs
    pc,         \* collect_data: "idle", the station being updated, "query", "crashed"
    cycle,      \* collection cycles started so far
    gauge,      \* metrics[ptype].labels(station): last value set, or Unset
    aqiGauge,   \* metrics["aqi"].labels(station): last value set, or Unset
    tsdb,       \* Prometheus: the scraped samples it holds, oldest first, with their age
    qmeans,     \* the means get_mean returned to the last get_aqi_data
    emitted,    \* gauges set since the current cycle started
    unscraped,  \* gauges whose current value Prometheus has not scraped yet
    mainpc,     \* __main__: "collect" (line 378) or "sleep" (lines 380-381)
    frames,     \* the collect_data activations on the main thread's stack, innermost last
    alarmLeft,  \* seconds until the armed alarm expires, 0 when none is armed
    pending     \* SIGALRM was delivered and its Python handler has not run yet

evars == <<emeans, eres, caqi, crisk, ekind>>

cvars == <<pc, cycle, gauge, aqiGauge, tsdb, qmeans, emitted, unscraped>>

svars == <<mainpc, frames, alarmLeft, pending>>

vars == <<evars, cvars, svars>>

-----------------------------------------------------------------------------
(* Rational arithmetic                                                     *)

RECURSIVE GCD(_, _)
GCD(a, b) == IF b = 0 THEN a ELSE GCD(b, a % b)

Abs(a) == IF a < 0 THEN -a ELSE a

NaN == [num |-> 0, den |-> 0]

IsNaN(x) == x.den = 0

Rat(n, d) ==
    LET g == GCD(Abs(n), Abs(d))
        s == IF d < 0 THEN -1 ELSE 1
    IN  [num |-> s * (n \div g), den |-> s * (d \div g)]

Int2Rat(n) == [num |-> n, den |-> 1]

RatAdd(a, b) == Rat(a.num * b.den + b.num * a.den, a.den * b.den)

RatSub(a, b) == Rat(a.num * b.den - b.num * a.den, a.den * b.den)

RatMul(a, b) == Rat(a.num * b.num, a.den * b.den)

RatDiv(a, b) == Rat(a.num * b.den, a.den * b.num)

\* a < b, compared by integer part first so that products stay small
RatLess(a, b) ==
    LET qa == a.num \div a.den
        qb == b.num \div b.den
    IN  \/ qa < qb
        \/ qa = qb /\ (a.num % a.den) * b.den < (b.num % b.den) * a.den

RatLeq(a, b) == a = b \/ RatLess(a, b)

\* IEEE comparisons: every comparison with NaN is false
FLess(a, b) == ~IsNaN(a) /\ ~IsNaN(b) /\ RatLess(a, b)

\* a comparison written as "not less than", which NaN passes
FGeqNotLess(a, b) == IsNaN(a) \/ IsNaN(b) \/ ~RatLess(a, b)

FGeq(a, b) == ~IsNaN(a) /\ ~IsNaN(b) /\ ~RatLess(a, b)

-----------------------------------------------------------------------------
(* AQI.csv and the tables built from it at import time                     *)

SIDs == <<"O3_8", "O3_1", "PM25", "PM10", "CO">>

SIDSet == {SIDs[i] : i \in DOMAIN SIDs}

\* a decimal number of the file: mantissa m with d decimals
Dec(m, d) == Rat(m, IF d = 0 THEN 1 ELSE IF d = 1 THEN 10 ELSE IF d = 2 THEN 100 ELSE 1000)

Cell(lo, hi, d) == <<Dec(lo, d), Dec(hi, d)>>

NoCell == <<>>      \* the cell "0 - 0"

AQI_index == <<
    [label |-> "0~50",    lo |-> 0,   hi |-> 50],
    [label |-> "51~100",  lo |-> 51,  hi |-> 100],
    [label |-> "101~150", lo |-> 101, hi |-> 150],
    [label |-> "151~200", lo |-> 151, hi |-> 200],
    [label |-> "201~300", lo |-> 201, hi |-> 300],
    [label |-> "301~400", lo |-> 301, hi |-> 400],
    [label |-> "401~500", lo |-> 401, hi |-> 500] >>

AQI_csv == [
    O3_8 |-> << Cell(0, 54, 3), Cell(55, 70, 3), Cell(71, 85, 3), Cell(86, 105, 3),
                Cell(106, 200, 3), NoCell, NoCell >>,
    O3_1 |-> << NoCell, NoCell, Cell(125, 164, 3), Cell(165, 204, 3),
                Cell(205, 404, 3), Cell(405, 504, 3), Cell(505, 604, 3) >>,
    PM25 |-> << Cell(0, 154, 1), Cell(155, 354, 1), Cell(355, 544, 1), Cell(545, 1504, 1),
                Cell(1505, 2504, 1), Cell(2505, 3504, 1), Cell(3505, 5004, 1) >>,
    PM10 |-> << Cell(0, 54, 0), Cell(55, 125, 0), Cell(126, 254, 0), Cell(255, 354, 0),
                Cell(355, 424, 0), Cell(425, 504, 0), Cell(505, 604, 0) >>,
    CO   |-> << Cell(0, 44, 1), Cell(45, 94, 1), Cell(95, 124, 1), Cell(125, 154, 1),
                Cell(155, 304, 1), Cell(305, 404, 1), Cell(405, 504, 1) >> ]

NRows == Len(AQI_index)

\* rows of a column that are not "0 - 0", in order
RECURSIVE KeptRows(_, _)
KeptRows(col, r) ==
    IF r > NRows THEN <<>>
    ELSE (IF col[r] = NoCell THEN <<>> ELSE <<r>>) \o KeptRows(col, r + 1)

UnitScale(sid) == IF sid \in {SIDs[1], SIDs[2]} THEN 1000 ELSE 1

\* intervals["val"]: the kept cells flattened to lo, hi, lo, hi, ...
Val(sid) ==
    LET rows == KeptRows(AQI_csv[sid], 1)
    IN  [i \in 1..(2 * Len(rows)) |->
            RatMul(AQI_csv[sid][rows[(i + 1) \div 2]][2 - (i % 2)], Int2Rat(UnitScale(sid)))]

\* y: the bucket bounds of the row labels flattened to lo, hi, lo, hi, ...
y == [i \in 1..(2 * NRows) |->
        IF i % 2 = 1 THEN AQI_index[(i + 1) \div 2].lo ELSE AQI_index[(i + 1) \div 2].hi]

\* y[arr["mask"]]: the bounds of the kept rows only
YMasked(sid) ==
    LET rows == KeptRows(AQI_csv[sid], 1)
    IN  [i \in 1..(2 * Len(rows)) |-> Int2Rat(y[2 * (rows[(i + 1) \div 2] - 1) + 2 - (i % 2)])]

AQI_min(sid) == Val(sid)[1]

AQI_max(sid) == Val(sid)[Len(Val(sid))]

-----------------------------------------------------------------------------
(* interpolate / np.interp                                                 *)

\* np.interp(a, xp, fp): NaN stays NaN, values outside xp take the end value
Interp(a, xp, fp) ==
    IF IsNaN(a) THEN NaN
    ELSE IF RatLess(a, xp[1]) THEN fp[1]
    ELSE IF ~RatLess(a, xp[Len(xp)]) THEN fp[Len(fp)]
    ELSE LET j == CHOOSE k \in 1..(Len(xp) - 1) : RatLeq(xp[k], a) /\ RatLess(a, xp[k + 1])
             slope == RatDiv(RatSub(fp[j + 1], fp[j]), RatSub(xp[j + 1], xp[j]))
         IN  RatAdd(RatMul(slope, RatSub(a, xp[j])), fp[j])

interpolate(sid, a) == Interp(a, Val(sid), YMasked(sid))

-----------------------------------------------------------------------------
(* get_aqi_data, for one row (station) of df                               *)

Threshold == 151

MaxRiskIndex == 6

RECURSIVE NanMaxFrom(_, _)
NanMaxFrom(sub, i) ==
    IF i > Len(SIDs) THEN NaN
    ELSE LET rest == NanMaxFrom(sub, i + 1)
             v == sub[SIDs[i]]
         IN  IF IsNaN(v) THEN rest
             ELSE IF IsNaN(rest) THEN v
             ELSE IF RatLess(v, rest) THEN rest ELSE v

\* np.max in place of np.nanmax: one NaN makes the result NaN
NanMaxPropagating(sub) ==
    IF \E s \in SIDSet : IsNaN(sub[s]) THEN NaN ELSE NanMaxFrom(sub, 1)

\* np.nanmax over the five sub-indices: NaN only when all are NaN
NanMax(sub) == NanMaxFrom(sub, 1)

\* side right in place of side left: the bounds equal to v count as well
SearchSortedRight(v) ==
    IF IsNaN(v) THEN Len(y)
    ELSE Cardinality({i \in DOMAIN y : RatLeq(Int2Rat(y[i]), v)})

\* np.searchsorted(y, v), side left: how many bounds are below v; NaN sorts last
SearchSorted(v) ==
    IF IsNaN(v) THEN Len(y)
    ELSE Cardinality({i \in DOMAIN y : RatLess(Int2Rat(y[i]), v)})

Min(a, b) == IF a < b THEN a ELSE b

\* lines 295-296: the label of row min(searchsorted // 2, 6), NaN for a NaN AQI
Risk(aqi) ==
    IF IsNaN(aqi) THEN "NaN"
    ELSE AQI_index[Min(SearchSorted(aqi) \div 2, MaxRiskIndex) + 1].label

\* line 292: read_error, and the cells set to NaN
ReadError(sid, m) == FLess(AQI_max(sid), m) \/ FLess(m, Int2Rat(0))

\* line 292 left out: the means reach np.interp as they are
MaskedNot(sid, m) == m

Masked(sid, m) == IF FLess(m, AQI_min(sid)) \/ ReadError(sid, m) THEN NaN ELSE m

GetAqiRow(means) ==
    LET sub == [sid \in SIDSet |-> interpolate(sid, Masked(sid, means[sid]))]
        aqi == NanMax(sub)
    IN  [done |-> TRUE,
         sub |-> sub,
         AQI |-> aqi,
         risk |-> Risk(aqi),
         abnormal |-> FGeq(aqi, Int2Rat(Threshold)),
         read_error |-> {sid \in SIDSet : ReadError(sid, means[sid])}]

NoResult == [done |-> FALSE]

NoMeans == [sid \in SIDSet |-> NaN]

-----------------------------------------------------------------------------
(* Engine check: get_aqi_data applied to rows of means, and the risk       *)
(* expression applied to AQI values                                        *)

MaxAqiProbe == 520

Two == Int2Rat(2)

\* every bound of the pollutant's table, the middle of every segment and of
\* every gap between segments, one unit beyond either end, and NaN
ProbePoints(sid) ==
    LET xp == Val(sid)
        n == Len(xp)
    IN  {NaN, RatAdd(xp[n], Int2Rat(1))}
        \cup {xp[i] : i \in 1..n}
        \cup {RatDiv(RatAdd(xp[i], xp[i + 1]), Two) : i \in 1..(n - 1)}
        \cup (IF RatLess(Int2Rat(0), xp[1]) THEN {RatSub(xp[1], Int2Rat(1))} ELSE {})

AqiProbes ==
    {NaN} \cup {Int2Rat(k) : k \in 0..MaxAqiProbe} \cup {Rat(2 * k + 1, 2) : k \in 0..MaxAqiProbe}

RowOf(f, x, o) ==
    [s \in SIDSet |->
        IF s = f THEN x
        ELSE IF o[s] = 1 THEN NaN
        ELSE IF o[s] = 2 THEN Val(s)[2]
        ELSE Val(s)[Len(Val(s)) - 1]]

EInit ==
    /\ eres = NoResult
    /\ crisk = "none"
    /\ \/ /\ ekind = "row"
          /\ caqi = NaN
          /\ \E f \in SIDSet :
               \E x \in ProbePoints(f) :
                 \E o \in [SIDSet -> {1, 2, 3}] : emeans = RowOf(f, x, o)
       \/ /\ ekind = "aqi"
          /\ emeans = NoMeans
          /\ caqi \in AqiProbes

EvalRow ==
    /\ ekind = "row"
    /\ ~eres.done
    /\ eres' = GetAqiRow(emeans)
    /\ UNCHANGED <<ekind, emeans, caqi, crisk, cvars, svars>>

Classify ==
    /\ ekind = "aqi"
    /\ crisk = "none"
    /\ crisk' = Risk(caqi)
    /\ UNCHANGED <<ekind, emeans, eres, caqi, cvars, svars>>

ENext == EvalRow \/ Classify

-----------------------------------------------------------------------------
(* Sample values as Prometheus returns them: strings                       *)

DigitChars == <<"0", "1", "2", "3", "4", "5", "6", "7", "8", "9">>

RECURSIVE Digits(_)
Digits(n) == IF n < 10 THEN <<DigitChars[n + 1]>> ELSE Digits(n \div 10) \o <<DigitChars[(n % 10) + 1]>>

\* the text of a sample value (values here have at most one decimal)
FormatValue(v) ==
    IF IsNaN(v) THEN <<"N", "a", "N">>
    ELSE LET a == Abs(v.num)
             sign == IF v.num < 0 THEN <<"-">> ELSE <<>>
         IN  IF v.den = 1 THEN sign \o Digits(a)
             ELSE sign \o Digits(a \div v.den) \o <<".">> \o Digits(((a * 10) \div v.den) % 10)

\* str.isdigit()
IsDigit(str) == Len(str) > 0 /\ \A i \in DOMAIN str : \E d \in DOMAIN DigitChars : DigitChars[d] = str[i]

DigitValue(c) == (CHOOSE d \in DOMAIN DigitChars : DigitChars[d] = c) - 1

RECURSIVE ToInt(_)
ToInt(str) == IF str = <<>> THEN 0 ELSE 10 * ToInt(SubSeq(str, 1, Len(str) - 1)) + DigitValue(str[Len(str)])

\* line 272: int(x) if x.isdigit() else np.nan
ParseSample(str) == IF IsDigit(str) THEN Int2Rat(ToInt(str)) ELSE NaN

-----------------------------------------------------------------------------
(* Configuration: stations and the pollutants each one fetches             *)

Stations == <<"B1F", "M">>

StationSet == {Stations[i] : i \in DOMAIN Stations}

api_names == [B1F |-> <<"pm25", "co">>, M |-> <<"co">>]

PTypes == {"o3", "pm25", "pm10", "co"}

Keys == UNION {{<<s, api_names[s][i]>> : i \in DOMAIN api_names[s]} : s \in StationSet}

AqiKeys == {<<s, "aqi">> : s \in StationSet}

Unset == [num |-> 0, den |-> -1]

IsSet(v) == v.den >= 0

\* what the sensor API may answer for a pollutant
SensorValues(p) ==
    IF p = "pm25" THEN {Int2Rat(12), Int2Rat(600), Int2Rat(-1)}
    ELSE {Int2Rat(2), Rat(5, 2)}

Responses(p) ==
    {[kind |-> "value", v |-> x] : x \in SensorValues(p)}
    \cup {[kind |-> k, v |-> NaN] : k \in {"http_error", "bad_format", "text"}}

\* lines 158-178: the value update_pollutant_data records for a response;
\* a "Value" that is no number is recorded as it is
NewValue(r) == IF r.kind = "value" THEN r.v ELSE NaN

IsNumber(r) == r.kind # "text"

\* lines 324-328: -1 and -2 are published as NaN
OutputValue(v) == IF v = Int2Rat(-1) \/ v = Int2Rat(-2) THEN NaN ELSE v

-----------------------------------------------------------------------------
(* get_mean over the samples Prometheus returns                            *)

QueryRange == 8

MaxCycles == 2

MaxScrapes == 2

TickHours == 6

Retention == 24

Horizon(sid) == IF sid = "O3_1" THEN 1 ELSE IF sid \in {"PM25", "PM10"} THEN 24 ELSE 8

PTypeOf(sid) ==
    IF sid \in {"O3_8", "O3_1"} THEN "o3"
    ELSE IF sid = "PM25" THEN "pm25"
    ELSE IF sid = "PM10" THEN "pm10" ELSE "co"

\* samples of one series held by Prometheus, oldest first: [age, v]
RECURSIVE Held(_, _)
Held(db, k) ==
    IF db = <<>> THEN <<>>
    ELSE (IF k \in DOMAIN db[1].g /\ IsSet(db[1].g[k])
            THEN <<[age |-> db[1].age, v |-> db[1].g[k]]>> ELSE <<>>) \o Held(Tail(db), k)

\* the answer to air_quality_<name>[8h] for one series: [age, text of the value]
RECURSIVE RangeQuery(_)
RangeQuery(held) ==
    IF held = <<>> THEN <<>>
    ELSE (IF held[1].age < QueryRange
            THEN <<[age |-> held[1].age, str |-> FormatValue(held[1].v)]>> ELSE <<>>)
         \o RangeQuery(Tail(held))

RECURSIVE SumOver(_, _)
SumOver(f, S) ==
    IF S = {} THEN Int2Rat(0)
    ELSE LET i == CHOOSE j \in S : TRUE IN RatAdd(f[i], SumOver(f, S \ {i}))

MeanOver(f, S) == IF S = {} THEN NaN ELSE RatDiv(SumOver(f, S), Int2Rat(Cardinality(S)))

\* lines 271-275: data.rolling(f"{hr}h", min_periods=1).mean().iloc[-1]
RollingMeanLast(ser, hr) ==
    LET data == [i \in DOMAIN ser |-> ParseSample(ser[i].str)]
        last == ser[Len(ser)]
        win == {i \in DOMAIN ser : ser[i].age - last.age < hr /\ ~IsNaN(data[i])}
    IN  MeanOver(data, win)

\* get_mean(url, hr)[station]: NaN unless the query returned the station's series
get_mean(db, s, p, hr) ==
    LET ser == RangeQuery(Held(db, <<s, p>>))
    IN  IF ser = <<>> THEN NaN ELSE RollingMeanLast(ser, hr)

\* lines 280-291: df before masking
MeansOf(db) ==
    [s \in StationSet |-> [sid \in SIDSet |-> get_mean(db, s, PTypeOf(sid), Horizon(sid))]]

-----------------------------------------------------------------------------
(* collect_data                                                            *)

CInit ==
    /\ pc = "idle"
    /\ cycle = 0
    /\ gauge = [k \in Keys |-> Unset]
    /\ aqiGauge = [s \in StationSet |-> Unset]
    /\ tsdb = <<>>
    /\ qmeans = [s \in StationSet |-> NoMeans]
    /\ emitted = {}
    /\ unscraped = {}

NextPc(s) ==
    LET i == CHOOSE j \in DOMAIN Stations : Stations[j] = s
    IN  IF i < Len(Stations) THEN Stations[i + 1] ELSE "query"

\* collect_data is entered (line 378, or line 366 from the handler)
StartCycle ==
    /\ pc = "idle"
    /\ cycle < MaxCycles
    /\ pc' = Stations[1]
    /\ cycle' = cycle + 1
    /\ emitted' = {}
    /\ UNCHANGED <<gauge, aqiGauge, tsdb, qmeans, unscraped, evars, svars>>

\* lines 321-335 for one station: fetch every pollutant, then set its gauges in
\* order; Gauge.set raises on a value that is no number and ends the cycle
UpdateStation(s) ==
    /\ pc = s
    /\ \E resp \in [DOMAIN api_names[s] -> UNION {Responses(p) : p \in PTypes}] :
        /\ \A i \in DOMAIN api_names[s] : resp[i] \in Responses(api_names[s][i])
        /\ LET names == api_names[s]
               bad == {i \in DOMAIN names : ~IsNumber(resp[i])}
               stop == IF bad = {} THEN Len(names) + 1
                       ELSE CHOOSE i \in bad : \A j \in bad : i <= j
               done == {<<s, names[i]>> : i \in 1..(stop - 1)}
               valueOf(k) == LET i == CHOOSE j \in DOMAIN names : names[j] = k[2]
                             IN  OutputValue(NewValue(resp[i]))
           IN  /\ gauge' = [k \in Keys |-> IF k \in done THEN valueOf(k) ELSE gauge[k]]
               /\ emitted' = emitted \cup done
               /\ unscraped' = unscraped \cup done
               /\ pc' = IF bad = {} THEN NextPc(s) ELSE "crashed"
    /\ UNCHANGED <<cycle, aqiGauge, tsdb, qmeans, evars, svars>>

\* lines 337-352: get_aqi_data, then the AQI of every station is published
GetAqiData ==
    /\ pc = "query"
    /\ qmeans' = MeansOf(tsdb)
    /\ aqiGauge' = [s \in StationSet |-> GetAqiRow(MeansOf(tsdb)[s]).AQI]
    /\ emitted' = emitted \cup AqiKeys
    /\ pc' = "idle"
    /\ UNCHANGED <<cycle, gauge, tsdb, unscraped, evars, svars>>

\* line 268: the query to Prometheus fails, get_mean raises
QueryFails ==
    /\ pc = "query"
    /\ pc' = "crashed"
    /\ UNCHANGED <<cycle, gauge, aqiGauge, tsdb, qmeans, emitted, unscraped, evars, svars>>

\* Prometheus scrapes the exporter: one sample per gauge that has a value
Scrape ==
    /\ pc # "crashed"
    /\ Len(tsdb) < MaxScrapes
    /\ \E k \in Keys : IsSet(gauge[k])
    /\ IF Len(tsdb) = 0 THEN TRUE ELSE tsdb[Len(tsdb)].age > 0
    /\ tsdb' = Append(tsdb, [age |-> 0, g |-> gauge])
    /\ unscraped' = {}
    /\ UNCHANGED <<pc, cycle, gauge, aqiGauge, qmeans, emitted, evars, svars>>

RECURSIVE Aged(_)
Aged(db) ==
    IF db = <<>> THEN <<>>
    ELSE (IF db[1].age + TickHours < Retention
            THEN <<[age |-> db[1].age + TickHours, g |-> db[1].g]>> ELSE <<>>) \o Aged(Tail(db))

\* time passes; Prometheus drops the samples older than its retention
Tick ==
    /\ pc # "crashed"
    /\ Len(tsdb) > 0
    /\ tsdb' = Aged(tsdb)
    /\ UNCHANGED <<pc, cycle, gauge, aqiGauge, qmeans, emitted, unscraped, evars, svars>>

CNext ==
    \/ StartCycle
    \/ \E s \in StationSet : UpdateStation(s)
    \/ GetAqiData
    \/ QueryFails
    \/ Scrape
    \/ Tick

-----------------------------------------------------------------------------
(* The SIGALRM schedule: __main__ and handler                              *)

API_UPDATE_INTERVAL_SEC == 300

TickSec == 100

MaxDepth == 3

\* after lines 373-375: the alarm is armed, the handler installed, and main is
\* about to call collect_data
SInit ==
    /\ mainpc = "collect"
    /\ frames = <<>>
    /\ alarmLeft = API_UPDATE_INTERVAL_SEC
    /\ pending = FALSE

\* line 378: main calls collect_data
MainCollect ==
    /\ mainpc = "collect"
    /\ frames = <<>>
    /\ frames' = <<Stations[1]>>
    /\ mainpc' = "running"
    /\ UNCHANGED <<alarmLeft, pending, evars, cvars>>

\* the innermost collect_data does its next piece of work (a station's fetches,
\* then the query and the publication of the AQI) and returns after the last
CollectStep ==
    /\ Len(frames) > 0
    /\ LET top == frames[Len(frames)]
           rest == SubSeq(frames, 1, Len(frames) - 1)
       IN  /\ frames' = IF top = "query" THEN rest ELSE Append(rest, NextPc(top))
           /\ mainpc' = IF top = "query" /\ Len(rest) = 0 THEN "sleep" ELSE mainpc
    /\ UNCHANGED <<alarmLeft, pending, evars, cvars>>

\* time passes, whatever the main thread is doing; the alarm expires
TimePasses ==
    /\ alarmLeft > 0
    /\ alarmLeft' = IF alarmLeft > TickSec THEN alarmLeft - TickSec ELSE 0
    /\ pending' = IF alarmLeft > TickSec THEN pending ELSE TRUE
    /\ UNCHANGED <<mainpc, frames, evars, cvars>>

\* lines 355-366: the interpreter runs the handler on the main thread, on top of
\* whatever is running there: it re-arms the alarm and calls collect_data
handler ==
    /\ pending
    /\ Len(frames) < MaxDepth
    /\ pending' = FALSE
    /\ alarmLeft' = API_UPDATE_INTERVAL_SEC
    /\ frames' = Append(frames, Stations[1])
    /\ UNCHANGED <<mainpc, evars, cvars>>

SNext == MainCollect \/ CollectStep \/ TimePasses \/ handler

SIdle ==
    /\ mainpc = "off"
    /\ frames = <<>>
    /\ alarmLeft = 0
    /\ pending = FALSE

-----------------------------------------------------------------------------
(* Properties of the AQI computation (SpecEngine)                          *)

KeptRowSet(sid) == {r \in 1..NRows : AQI_csv[sid][r] # NoCell}

\* the breakpoint segment of a pollutant in row r, in the unit of its samples
Segment(sid, r) ==
    [clo |-> RatMul(AQI_csv[sid][r][1], Int2Rat(UnitScale(sid))),
     chi |-> RatMul(AQI_csv[sid][r][2], Int2Rat(UnitScale(sid))),
     ilo |-> Int2Rat(AQI_index[r].lo),
     ihi |-> Int2Rat(AQI_index[r].hi)]

GlobalMin(sid) == Segment(sid, CHOOSE r \in KeptRowSet(sid) : \A q \in KeptRowSet(sid) : r <= q).clo

GlobalMax(sid) == Segment(sid, CHOOSE r \in KeptRowSet(sid) : \A q \in KeptRowSet(sid) : r >= q).chi

\* clo..chi mapped linearly onto ilo..ihi
Linear(c, clo, chi, ilo, ihi) ==
    RatAdd(ilo, RatDiv(RatMul(RatSub(c, clo), RatSub(ihi, ilo)), RatSub(chi, clo)))

Within(c, lo, hi) == RatLeq(lo, c) /\ RatLeq(c, hi)

OutOfDomain(sid, c) == IsNaN(c) \/ RatLess(c, GlobalMin(sid)) \/ RatLess(GlobalMax(sid), c)

ValidSubs == {s \in SIDSet : ~IsNaN(eres.sub[s])}

\* C1: the AQI of a row is the largest of its non-missing sub-indices, one
\* non-missing sub-index is enough to give an AQI, and the AQI is missing
\* exactly when all five sub-indices are missing.
C1_AqiIsMaxOfSubIndices ==
    eres.done =>
        IF ValidSubs = {} THEN IsNaN(eres.AQI)
        ELSE /\ ~IsNaN(eres.AQI)
             /\ \E s \in ValidSubs : eres.sub[s] = eres.AQI
             /\ \A s \in ValidSubs : RatLeq(eres.sub[s], eres.AQI)

C1_Witness ==
    /\ eres.done
    /\ Cardinality(ValidSubs) = 1
    /\ \E s \in ValidSubs : eres.AQI = eres.sub[s]

\* C2 as stated: a missing or out-of-domain concentration gives a missing
\* sub-index, and every other concentration lies in a segment of the pollutant
\* and gives that segment's linear interpolation.
C2_EveryConcentrationInASegment ==
    eres.done =>
        \A sid \in SIDSet :
            IF OutOfDomain(sid, emeans[sid]) THEN IsNaN(eres.sub[sid])
            ELSE \E r \in KeptRowSet(sid) :
                    LET g == Segment(sid, r)
                    IN  /\ Within(emeans[sid], g.clo, g.chi)
                        /\ eres.sub[sid] = Linear(emeans[sid], g.clo, g.chi, g.ilo, g.ihi)

NextKept(sid, r) == CHOOSE q \in KeptRowSet(sid) : q > r /\ \A p \in KeptRowSet(sid) : p > r => q <= p

InGapAfter(sid, r, c) ==
    /\ \E q \in KeptRowSet(sid) : q > r
    /\ RatLess(Segment(sid, r).chi, c)
    /\ RatLess(c, Segment(sid, NextKept(sid, r)).clo)

\* C2 amended: a missing or out-of-domain concentration gives a missing
\* sub-index; a concentration inside a segment gives that segment's linear
\* interpolation, so a segment's low and high bound give its declared index_low
\* and index_high; and a concentration between the high bound of one segment
\* and the low bound of the next gives the linear interpolation between the
\* first segment's index_high and the next segment's index_low.
C2_InterpolationWithGaps ==
    eres.done =>
        \A sid \in SIDSet :
            IF OutOfDomain(sid, emeans[sid]) THEN IsNaN(eres.sub[sid])
            ELSE \A r \in KeptRowSet(sid) :
                    LET g == Segment(sid, r)
                        c == emeans[sid]
                    IN  /\ Within(c, g.clo, g.chi) =>
                              eres.sub[sid] = Linear(c, g.clo, g.chi, g.ilo, g.ihi)
                        /\ c = g.clo => eres.sub[sid] = g.ilo
                        /\ c = g.chi => eres.sub[sid] = g.ihi
                        /\ InGapAfter(sid, r, c) =>
                              eres.sub[sid] = Linear(c, g.chi, Segment(sid, NextKept(sid, r)).clo,
                                                     g.ihi, Segment(sid, NextKept(sid, r)).ilo)

C2_Witness ==
    /\ eres.done
    /\ \E sid \in SIDSet :
        /\ ~IsNaN(emeans[sid])
        /\ \E r \in KeptRowSet(sid) : InGapAfter(sid, r, emeans[sid])
        /\ ~IsNaN(eres.sub[sid])
    /\ \E sid \in SIDSet : emeans[sid] = Segment(sid, 3).chi /\ eres.sub[sid] = Int2Rat(150)

Labels == {AQI_index[r].label : r \in 1..NRows}

RiskAgrees(a, risk) ==
    IF IsNaN(a) THEN risk = "NaN"
    ELSE /\ risk \in Labels
         /\ \A r \in 1..NRows :
              Within(a, Int2Rat(AQI_index[r].lo), Int2Rat(AQI_index[r].hi)) => risk = AQI_index[r].label
         /\ RatLess(Int2Rat(AQI_index[NRows].hi), a) => risk = AQI_index[NRows].label

\* C5: the risk label is the label of the bucket whose range contains the AQI
\* (150 is in 101~150, 151 in 151~200), an AQI above the highest bound gets the
\* last bucket's label, and a missing AQI gets the label missing, no bucket.
C5_RiskBucket ==
    /\ crisk # "none" => RiskAgrees(caqi, crisk)
    /\ eres.done => RiskAgrees(eres.AQI, eres.risk)

C5_Witness ==
    /\ caqi = Int2Rat(AQI_index[NRows].hi + 1)
    /\ crisk = AQI_index[NRows].label

\* C6: abnormal is a boolean, true exactly when the AQI is not missing and is
\* at least the threshold of 151; with a missing AQI it is false.
C6_AbnormalFlag ==
    eres.done =>
        /\ eres.abnormal \in BOOLEAN
        /\ eres.abnormal = (eres.AQI.den > 0 /\ eres.AQI.num >= Threshold * eres.AQI.den)

C6_Witness ==
    /\ eres.done
    /\ ValidSubs = {}
    /\ IsNaN(eres.AQI)
    /\ eres.abnormal = FALSE

-----------------------------------------------------------------------------
(* Properties of the sample path and of a collection cycle (Spec)          *)

\* the step in which get_aqi_data reads Prometheus and the AQI is published
QueryStep == pc = "query" /\ pc' = "idle"

HeldOf(s, sid) == Held(tsdb, <<s, PTypeOf(sid)>>)

\* the samples of a series that the query returns
Returned(s, sid) == {i \in DOMAIN HeldOf(s, sid) : HeldOf(s, sid)[i].age < QueryRange}

NewestAge(s, sid) ==
    LET h == HeldOf(s, sid)
    IN  h[CHOOSE i \in Returned(s, sid) : \A j \in Returned(s, sid) : h[i].age <= h[j].age].age

\* the returned samples inside the rolling window that ends at the newest one
InWindow(s, sid) ==
    {i \in Returned(s, sid) : HeldOf(s, sid)[i].age - NewestAge(s, sid) < Horizon(sid)}

ValueOf(s, sid) == [i \in DOMAIN HeldOf(s, sid) |-> HeldOf(s, sid)[i].v]

\* C3: the trailing mean of a window with exactly one valid sample is that
\* sample's value, whether it is an integer or has a fraction, and the trailing
\* mean of a window with no valid sample is missing. A sample counts as valid
\* here when it is a number (the sentinels were published as NaN).
C3_MeanOfOneSample ==
    [][QueryStep =>
        \A s \in StationSet, sid \in SIDSet :
            LET valid == {i \in InWindow(s, sid) : ~IsNaN(ValueOf(s, sid)[i])}
            IN  /\ valid = {} => IsNaN(qmeans'[s][sid])
                /\ Cardinality(valid) = 1 =>
                      \E i \in valid : qmeans'[s][sid] = ValueOf(s, sid)[i]]_vars

InDomain(sid, v) == ~IsNaN(v) /\ Within(v, Int2Rat(0), GlobalMax(sid))

\* C4: sentinel codes and samples outside the pollutant's domain are not among
\* the samples a trailing mean is computed from: the mean get_mean returns is
\* the mean of the in-domain samples of the window that it could read.
C4_InvalidSamplesExcluded ==
    [][QueryStep =>
        \A s \in StationSet, sid \in SIDSet :
            LET valid == {i \in InWindow(s, sid) :
                            /\ ~IsNaN(ParseSample(FormatValue(ValueOf(s, sid)[i])))
                            /\ InDomain(sid, ValueOf(s, sid)[i])}
            IN  qmeans'[s][sid] = MeanOver(ValueOf(s, sid), valid)]_vars

\* C7: a cycle is never aborted, and when it ends every gauge of every
\* configured station, the AQI gauge included, was set in it.
C7_EveryGaugeEmitted ==
    /\ pc # "crashed"
    /\ (pc = "idle" /\ cycle > 0) => emitted = Keys \cup AqiKeys

\* C8: when the newest sample of a series was scraped just now, its trailing
\* mean is the mean of the readable samples younger than the pollutant's
\* horizon (1 h, 8 h or 24 h), all of them and no others.
C8_MeanOverHorizon ==
    [][QueryStep =>
        \A s \in StationSet, sid \in SIDSet :
            (Returned(s, sid) # {} /\ NewestAge(s, sid) = 0) =>
                LET inHorizon == {i \in DOMAIN HeldOf(s, sid) :
                                    /\ HeldOf(s, sid)[i].age < Horizon(sid)
                                    /\ ~IsNaN(ParseSample(FormatValue(ValueOf(s, sid)[i])))}
                    parsed == [i \in DOMAIN HeldOf(s, sid) |->
                                    ParseSample(FormatValue(ValueOf(s, sid)[i]))]
                IN  qmeans'[s][sid] = MeanOver(parsed, inHorizon)]_vars

\* C10: when get_aqi_data reads the store, every value the gauges were given in
\* this cycle is in the store.
C10_CycleSamplesInStore == [][QueryStep => unscraped = {}]_vars

-----------------------------------------------------------------------------
(* Property of the schedule (SpecSched)                                    *)

\* C9: no collect_data starts while another one is in progress.
C9_CyclesNeverOverlap == Len(frames) <= 1

-----------------------------------------------------------------------------
(* Specifications                                                          *)

EIdle ==
    /\ ekind = "off"
    /\ emeans = NoMeans
    /\ eres = NoResult
    /\ caqi = NaN
    /\ crisk = "none"

CIdle ==
    /\ pc = "off"
    /\ cycle = 0
    /\ gauge = [k \in Keys |-> Unset]
    /\ aqiGauge = [s \in StationSet |-> Unset]
    /\ tsdb = <<>>
    /\ qmeans = [s \in StationSet |-> NoMeans]
    /\ emitted = {}
    /\ unscraped = {}

\* the AQI computation applied to rows of means and to AQI values
InitEngine == EInit /\ CIdle /\ SIdle

SpecEngine == InitEngine /\ [][ENext]_vars

\* collection cycles, with Prometheus scraping in between
Init == CInit /\ EIdle /\ SIdle

Spec == Init /\ [][CNext]_vars

\* the alarm-driven schedule of collection cycles
InitSched == SInit /\ EIdle /\ CIdle

SpecSched == InitSched /\ [][SNext]_vars

====
